---- MODULE Spec2Model ----
(***************************************************************************)
(* Model of svgpathtools/svg_to_paths.py: the coordinate-pair scanner     *)
(* COORD_PAIR_TMPLT, the shape converters (ellipse2pathd, polyline2pathd, *)
(* polygon2pathd, rect2pathd, line2pathd) and the document walker         *)
(* svg2paths.                                                              *)
(*                                                                         *)
(* Python strings are sequences of one-character strings.  A Python value *)
(* that an attribute lookup can yield is a record [t, s, n]: a string     *)
(* (t = "str", s its characters), a number (t = "num", n in millionths)   *)
(* or None (t = "none").  A Python float is modelled exactly in the two    *)
(* forms the code uses it in: as a normalised decimal (sign, mantissa,    *)
(* exponent) where the code compares floats, and as a fixed-point number  *)
(* of millionths where the code adds, multiplies and prints them.         *)
(***************************************************************************)
EXTENDS Integers, Sequences, FiniteSets, TLC

VARIABLES
  \* One call of a converter or of the scanner.
  fn,                         \* the function called, "none" before the call
  arg,                        \* the attribute mapping it is called on
  out,                        \* what the call returned or raised
  \* One call of svg2paths.
  doc,                        \* doc.getElementsByTagName("*"), in document order
  flags,                      \* the six convert_*_to_paths arguments
  return_svg_attributes,
  pc,                         \* "walk", "finish", "parse", "returned", "raised"
  idx,                        \* the element the loop visits next
  d_strings,
  attribute_dictionary_list,
  svg_attributes,
  path_list,
  result                      \* the returned tuple, or the exception raised

convVars == <<fn, arg, out>>
walkVars ==
  <<doc, flags, return_svg_attributes, pc, idx, d_strings,
    attribute_dictionary_list, svg_attributes, path_list, result>>
vars == <<fn, arg, out, doc, flags, return_svg_attributes, pc, idx, d_strings,
          attribute_dictionary_list, svg_attributes, path_list, result>>

\* ------------------------------------------------------------------ bounds

\* Longest free-form points string enumerated character by character.
MaxRawLen == 3
\* Most coordinate pairs in a points string assembled from pair texts.
MaxPairs == 3
\* Most elements in a document.
MaxDoc == 2

\* ----------------------------------------------------------- characters

Digits == {"0", "1", "2", "3", "4", "5", "6", "7", "8", "9"}
Signs == {"+", "-"}
Spaces == {" "}
Letters ==
  {"a", "b", "c", "d", "e", "f", "g", "h", "i", "j", "k", "l", "m",
   "n", "o", "p", "q", "r", "s", "t", "u", "v", "w", "x", "y", "z",
   "A", "B", "C", "D", "E", "F", "G", "H", "I", "J", "K", "L", "M",
   "N", "O", "P", "Q", "R", "S", "T", "U", "V", "W", "X", "Y", "Z"}

DigitVal(c) ==
  CASE c = "0" -> 0 [] c = "1" -> 1 [] c = "2" -> 2 [] c = "3" -> 3
    [] c = "4" -> 4 [] c = "5" -> 5 [] c = "6" -> 6 [] c = "7" -> 7
    [] c = "8" -> 8 [] c = "9" -> 9

DigitChar(n) ==
  CASE n = 0 -> "0" [] n = 1 -> "1" [] n = 2 -> "2" [] n = 3 -> "3"
    [] n = 4 -> "4" [] n = 5 -> "5" [] n = 6 -> "6" [] n = 7 -> "7"
    [] n = 8 -> "8" [] n = 9 -> "9"

\* s[a .. b-1], the Python slice s[a-1:b-1] in 1-based positions.
Slice(s, a, b) == SubSeq(s, a, b - 1)

RECURSIVE Flatten(_)
Flatten(ss) == IF ss = <<>> THEN <<>> ELSE Head(ss) \o Flatten(Tail(ss))

\* Length of the longest run of characters of class cls starting at s[p].
RECURSIVE Run(_, _, _)
Run(cls, s, p) ==
  IF p <= Len(s) /\ s[p] \in cls THEN 1 + Run(cls, s, p + 1) ELSE 0

Abs(n) == IF n < 0 THEN 0 - n ELSE n

RECURSIVE Pow10(_)
Pow10(k) == IF k <= 0 THEN 1 ELSE 10 * Pow10(k - 1)

\* The decimal value of a run of digit characters.
RECURSIVE DigitsVal(_)
DigitsVal(ds) ==
  IF ds = <<>> THEN 0
  ELSE 10 * DigitsVal(SubSeq(ds, 1, Len(ds) - 1)) + DigitVal(ds[Len(ds)])

\* ------------------------------------------------- the backtracking matcher
\* A pattern started at position p yields the positions it can end at, in the
\* order the backtracking engine of `re` tries them; the first one after which
\* the rest of the pattern matches is the one the match uses.

\* cls* (greedy): the longest run first, then shorter ones.
\* hi, hi - 1, ...: n positions.
Downto(hi, n) == [k \in 1..n |-> hi + 1 - k]

Star(cls, s, p) == Downto(p + Run(cls, s, p), Run(cls, s, p) + 1)

\* cls+ (greedy).
Plus(cls, s, p) == Downto(p + Run(cls, s, p), Run(cls, s, p))

\* cls? (greedy).
Opt(cls, s, p) == IF p <= Len(s) /\ s[p] \in cls THEN <<p + 1, p>> ELSE <<p>>

\* One character of cls.
One(cls, s, p) == IF p <= Len(s) /\ s[p] \in cls THEN <<p + 1>> ELSE <<>>

\* Concatenation: every end of the first pattern, in order, continued by F.
Then(ends, F(_)) == Flatten([k \in 1..Len(ends) |-> F(ends[k])])

\* ------------------------------------------------ COORD_PAIR_TMPLT (regex)

DotOrDigit == Digits \cup {"."}

\* [\+-]?\d*[\.\d]\d*
MantissaEnds(s, p) ==
  Then(Then(Then(Opt(Signs, s, p),
                 LAMBDA q : Star(Digits, s, q)),
            LAMBDA q : One(DotOrDigit, s, q)),
       LAMBDA q : Star(Digits, s, q))

\* [\+-]?\d*[\.\d]\d*[eE][\+-]?\d+
ExponentFormEnds(s, p) ==
  Then(Then(Then(MantissaEnds(s, p),
                 LAMBDA q : One({"e", "E"}, s, q)),
            LAMBDA q : Opt(Signs, s, q)),
       LAMBDA q : Plus(Digits, s, q))

\* One capture group: the exponent form is tried before the plain form.
NumberEnds(s, p) == ExponentFormEnds(s, p) \o MantissaEnds(s, p)

\* A faulty variant of SeparatorEnds, without the alternative (?=-); C9 must
\* not hold of it.
SeparatorEnds_NoLookahead(s, p) ==
  Then(Then(Star(Spaces, s, p),
            LAMBDA q : One({","}, s, q)),
       LAMBDA q : Star(Spaces, s, q))
  \o Plus(Spaces, s, p)

\* (?:\s*,\s*|\s+|(?=-))
SeparatorEnds(s, p) ==
  Then(Then(Star(Spaces, s, p),
            LAMBDA q : One({","}, s, q)),
       LAMBDA q : Star(Spaces, s, q))
  \o Plus(Spaces, s, p)
  \o (IF p <= Len(s) /\ s[p] = "-" THEN <<p>> ELSE <<>>)

\* The match that ends group 1 at e1 and starts group 2 at s2, if group 2
\* matches there: its first end is the one the engine takes.
MatchEnding(p, e1, s2, ends2) ==
  IF ends2 = <<>> THEN <<>>
  ELSE <<[start |-> p, e1 |-> e1, s2 |-> s2, e2 |-> ends2[1]]>>

\* Every way the whole pattern matches starting at p, in the engine's order:
\* start .. e1 is group 1, e1 .. s2 the separator, s2 .. e2 group 2.
MatchesAt(s, p) ==
  Then(NumberEnds(s, p),
       LAMBDA e1 :
         Then(SeparatorEnds(s, e1),
              LAMBDA s2 : MatchEnding(p, e1, s2, NumberEnds(s, s2))))

\* Pattern.finditer: the leftmost match, then on from where it ended.
RECURSIVE FindIterFrom(_, _)
FindIterStep(s, p, ms) ==
  IF ms = <<>> THEN FindIterFrom(s, p + 1)
  ELSE <<ms[1]>> \o FindIterFrom(s, ms[1].e2)

FindIterFrom(s, p) ==
  IF p > Len(s) THEN <<>> ELSE FindIterStep(s, p, MatchesAt(s, p))

FindIter(s) == FindIterFrom(s, 1)

\* The two groups of every match, as strings.
Groups(s, ms) ==
  [i \in 1..Len(ms) |->
     <<Slice(s, ms[i].start, ms[i].e1), Slice(s, ms[i].s2, ms[i].e2)>>]

\* Pattern.findall.
FindAll(s) == Groups(s, FindIter(s))

\* ------------------------------------------------------------ Python values

Str(s) == [t |-> "str", s |-> s, n |-> 0]
Num(n) == [t |-> "num", s |-> <<>>, n |-> n]
None == [t |-> "none", s |-> <<>>, n |-> 0]

\* dict.get(key, default) on an attribute mapping (a function from names to
\* character sequences).
Get(d, key, default) == IF key \in DOMAIN d THEN Str(d[key]) ELSE default

\* bool(v): None, 0 and the empty string are false.
Truthy(v) ==
  CASE v.t = "none" -> FALSE
    [] v.t = "num" -> v.n # 0
    [] v.t = "str" -> v.s # <<>>

\* ------------------------------------------------------------ float(value)
\* A float is [exc, neg, m, e]: exc is "none" or the exception float() raises,
\* and the value is (-1)^neg * m * 10^e with m not divisible by 10 (m = 0,
\* e = 0 for the two zeros, which keep their sign).

Raised(exc) == [exc |-> exc, neg |-> FALSE, m |-> 0, e |-> 0]

RECURSIVE Normalise(_, _, _)
Normalise(neg, m, e) ==
  IF m = 0 THEN [exc |-> "none", neg |-> neg, m |-> 0, e |-> 0]
  ELSE IF m % 10 = 0 THEN Normalise(neg, m \div 10, e + 1)
  ELSE [exc |-> "none", neg |-> neg, m |-> m, e |-> e]

\* float(str): surrounding whitespace is stripped; then sign, digits with an
\* optional point (at least one digit), an optional exponent, and nothing else.
\* The parse runs left to right; each step is given the position it starts at.

\* The end: only whitespace may follow the number.
FloatEnd(s, neg, mant, nf, ex, g) ==
  IF g + Run(Spaces, s, g) <= Len(s) THEN Raised("ValueError")
  ELSE Normalise(neg, mant, ex - nf)

\* The digits of the exponent, from f.
FloatExpDigits(s, neg, mant, nf, eneg, f, ne) ==
  IF ne = 0 THEN Raised("ValueError")
  ELSE FloatEnd(s, neg, mant, nf,
                IF eneg THEN 0 - DigitsVal(Slice(s, f, f + ne))
                ELSE DigitsVal(Slice(s, f, f + ne)),
                f + ne)

\* The optional exponent, from d.
FloatExp(s, neg, mant, nf, d) ==
  IF d <= Len(s) /\ s[d] \in {"e", "E"}
  THEN IF d + 1 <= Len(s) /\ s[d + 1] \in Signs
       THEN FloatExpDigits(s, neg, mant, nf, s[d + 1] = "-", d + 2,
                           Run(Digits, s, d + 2))
       ELSE FloatExpDigits(s, neg, mant, nf, FALSE, d + 1, Run(Digits, s, d + 1))
  ELSE FloatEnd(s, neg, mant, nf, 0, d)

\* The fraction digits, from c (nf of them), after ni integer digits from b.
FloatFraction(s, neg, b, ni, c, nf) ==
  IF ni + nf = 0 THEN Raised("ValueError")
  ELSE FloatExp(s, neg, DigitsVal(Slice(s, b, b + ni) \o Slice(s, c, c + nf)),
                nf, c + nf)

\* The integer digits, from b (ni of them), and the optional point.
FloatDigits(s, neg, b, ni) ==
  IF b + ni <= Len(s) /\ s[b + ni] = "."
  THEN FloatFraction(s, neg, b, ni, b + ni + 1, Run(Digits, s, b + ni + 1))
  ELSE FloatFraction(s, neg, b, ni, b + ni, 0)

\* The optional sign, at a.
FloatSign(s, a) ==
  IF a <= Len(s) /\ s[a] \in Signs
  THEN FloatDigits(s, s[a] = "-", a + 1, Run(Digits, s, a + 1))
  ELSE FloatDigits(s, FALSE, a, Run(Digits, s, a))

FloatOfStr(s) == FloatSign(s, 1 + Run(Spaces, s, 1))

\* float(v) for any value a lookup yields.
Float(v) ==
  CASE v.t = "none" -> Raised("TypeError")
    [] v.t = "num" -> Normalise(v.n < 0, Abs(v.n), 0 - 6)
    [] v.t = "str" -> FloatOfStr(v.s)

\* a == b on floats: equal values; 0.0 == -0.0.
FloatEq(a, b) == a.m = b.m /\ a.e = b.e /\ (a.m = 0 \/ a.neg = b.neg)

\* The float as sign and magnitude in millionths, the form it is computed
\* with and printed in.
Fixed(f) ==
  [neg |-> f.neg,
   mag |-> IF f.e + 6 >= 0 THEN f.m * Pow10(f.e + 6)
           ELSE f.m \div Pow10(0 - (f.e + 6))]

Signed(a) == IF a.neg THEN 0 - a.mag ELSE a.mag

\* a + b: the sum of two zeros is -0.0 only if both are; x + (-x) is 0.0.
FAdd(a, b) ==
  IF a.mag = 0 /\ b.mag = 0 THEN [neg |-> a.neg /\ b.neg, mag |-> 0]
  ELSE [neg |-> Signed(a) + Signed(b) < 0, mag |-> Abs(Signed(a) + Signed(b))]

FNeg(a) == [neg |-> ~a.neg, mag |-> a.mag]

\* a - b.
FSub(a, b) == FAdd(a, FNeg(b))

\* k * a for an integer k.
FMulInt(k, a) ==
  [neg |-> (k < 0) # a.neg, mag |-> Abs(k) * a.mag]

\* a * c for a positive constant c given in millionths.
FMulConst(a, c) ==
  [neg |-> a.neg,
   mag |-> (a.mag \div 1000000) * c
           + (((a.mag % 1000000) \div 1000) * c) \div 1000
           + ((a.mag % 1000) * c) \div 1000000]

\* The exception of the first float() of a sequence of calls that raises.
RECURSIVE FirstExc(_)
FirstExc(fs) ==
  IF fs = <<>> THEN "none"
  ELSE IF Head(fs).exc # "none" THEN Head(fs).exc
  ELSE FirstExc(Tail(fs))

\* --------------------------------------------------------------- str(float)

RECURSIVE NatStr(_)
NatStr(n) == IF n < 10 THEN <<DigitChar(n)>> ELSE NatStr(n \div 10) \o <<DigitChar(n % 10)>>

\* The six fraction digits of k millionths, trailing zeros dropped, one kept.
RECURSIVE FracStr(_, _)
FracStr(k, width) ==
  IF width = 1 \/ k % Pow10(width - 1) = 0
  THEN <<DigitChar(k \div Pow10(width - 1))>>
  ELSE <<DigitChar(k \div Pow10(width - 1))>> \o FracStr(k % Pow10(width - 1), width - 1)

\* str(x) of a float x: "1.0", "-0.5", "0.276142", "-0.0".
FloatStr(a) ==
  (IF a.neg THEN <<"-">> ELSE <<>>)
  \o NatStr(a.mag \div 1000000) \o <<".">> \o FracStr(a.mag % 1000000, 6)

\* ------------------------------------------------------- shape converters
\* A converter returns [exc, d]: the exception it raises ("none" if it
\* returns) and the string it returns.

Returns(d) == [exc |-> "none", d |-> d]
Raises(exc) == [exc |-> exc, d |-> <<>>]

PATH_KAPPA == 552284

\* The cubic branch of ellipse2pathd.
EllipseCubics(cx, cy, rx, ry) ==
  LET rxKappa == FMulConst(rx, PATH_KAPPA)
      ryKappa == FMulConst(ry, PATH_KAPPA)
      S(a) == FloatStr(a)
      C(a, b, c, d, e, f) ==
        <<"C">> \o S(a) \o <<" ">> \o S(b) \o <<" ">> \o S(c) \o <<" ">>
        \o S(d) \o <<" ">> \o S(e) \o <<" ">> \o S(f)
  IN  <<"M">> \o S(FAdd(cx, rx)) \o <<" ">> \o S(cy)
      \o C(FAdd(cx, rx), FAdd(cy, ryKappa), FAdd(cx, rxKappa),
           FAdd(cy, ry), cx, FAdd(cy, ry))
      \o C(FSub(cx, rxKappa), FAdd(cy, ry), FSub(cx, rx),
           FAdd(cy, ryKappa), FSub(cx, rx), cy)
      \o C(FSub(cx, rx), FSub(cy, ryKappa), FSub(cx, rxKappa),
           FSub(cy, ry), cx, FSub(cy, ry))
      \o C(FAdd(cx, rxKappa), FSub(cy, ry), FAdd(cx, rx),
           FSub(cy, ryKappa), FAdd(cx, rx), cy)

\* A faulty variant of EllipseArcs, with sweep-flag 1; C7 must not hold of it.
EllipseArcs_Sweep(cx, cy, rx, ry) ==
  LET S(a) == FloatStr(a)
      arc(k) ==
        <<"a">> \o S(rx) \o <<",">> \o S(ry) \o <<" ", "0", " ", "1", ",", "1", " ">>
        \o S(FMulInt(k, rx)) \o <<",", "0">>
  IN  <<"M">> \o S(FSub(cx, rx)) \o <<",">> \o S(cy) \o arc(2) \o arc(0 - 2)

\* The arc branch of ellipse2pathd.
EllipseArcs(cx, cy, rx, ry) ==
  LET S(a) == FloatStr(a)
      arc(k) ==
        <<"a">> \o S(rx) \o <<",">> \o S(ry) \o <<" ", "0", " ", "1", ",", "0", " ">>
        \o S(FMulInt(k, rx)) \o <<",", "0">>
  IN  <<"M">> \o S(FSub(cx, rx)) \o <<",">> \o S(cy) \o arc(2) \o arc(0 - 2)

\* ellipse2pathd from the four floats on.
EllipsePath(frx, fry, fcx, fcy, use_cubics) ==
  IF FirstExc(<<frx, fry, fcx, fcy>>) # "none"
  THEN Raises(FirstExc(<<frx, fry, fcx, fcy>>))
  ELSE Returns((IF use_cubics
                THEN EllipseCubics(Fixed(fcx), Fixed(fcy), Fixed(frx), Fixed(fry))
                ELSE EllipseArcs(Fixed(fcx), Fixed(fcy), Fixed(frx), Fixed(fry)))
               \o <<"z">>)

ellipse2pathd(ellipse, use_cubics) ==
  IF "r" \in DOMAIN ellipse
  THEN EllipsePath(Float(Get(ellipse, "r", None)), Float(Get(ellipse, "r", None)),
                   Float(Get(ellipse, "cx", Num(0))),
                   Float(Get(ellipse, "cy", Num(0))), use_cubics)
  ELSE EllipsePath(Float(Get(ellipse, "rx", None)), Float(Get(ellipse, "ry", None)),
                   Float(Get(ellipse, "cx", Num(0))),
                   Float(Get(ellipse, "cy", Num(0))), use_cubics)

\* "{0} {1}".format(x, y) of every pair, joined by "L".
RECURSIVE JoinPairs(_)
JoinPairs(points) ==
  IF points = <<>> THEN <<>>
  ELSE points[1][1] \o <<" ">> \o points[1][2]
       \o (IF Len(points) = 1 THEN <<>> ELSE <<"L">> \o JoinPairs(Tail(points)))

\* first == last on one coordinate: the exception float() raises, if any,
\* else whether the two floats are equal.
SameCoordinate(a, b) ==
  [exc |-> FirstExc(<<a, b>>), eq |-> FirstExc(<<a, b>>) = "none" /\ FloatEq(a, b)]

\* The test `closed` of polyline2pathd, with the float() calls in the order
\* the expression makes them: the y's are parsed only if the x's are equal.
ClosedOf(x, y) ==
  IF x.exc # "none" THEN [exc |-> x.exc, closed |-> FALSE]
  ELSE IF ~x.eq THEN [exc |-> "none", closed |-> FALSE]
  ELSE IF y.exc # "none" THEN [exc |-> y.exc, closed |-> FALSE]
  ELSE [exc |-> "none", closed |-> y.eq]

Closed(points) ==
  ClosedOf(SameCoordinate(FloatOfStr(points[1][1]),
                          FloatOfStr(points[Len(points)][1])),
           SameCoordinate(FloatOfStr(points[1][2]),
                          FloatOfStr(points[Len(points)][2])))

\* A faulty variant of PolylinePath, without points.append(points[0]); C4 must
\* not hold of it.
PolylinePath_NoAppend(points, c, is_polygon) ==
  IF c.exc # "none" THEN Raises(c.exc)
  ELSE Returns(<<"M">> \o JoinPairs(points)
               \o (IF is_polygon \/ c.closed THEN <<"z">> ELSE <<>>))

\* polyline2pathd from the scanned points on.
PolylinePath(points, c, is_polygon) ==
  IF c.exc # "none" THEN Raises(c.exc)
  ELSE Returns(<<"M">>
               \o JoinPairs(IF is_polygon /\ c.closed
                            THEN Append(points, points[1]) ELSE points)
               \o (IF is_polygon \/ c.closed THEN <<"z">> ELSE <<>>))

PolylineOf(points, is_polygon) ==
  IF Len(points) = 0 THEN Returns(<<>>)
  ELSE PolylinePath(points, Closed(points), is_polygon)

polyline2pathd(polyline, is_polygon) ==
  PolylineOf(FindAll(Get(polyline, "points", Str(<<>>)).s), is_polygon)

polygon2pathd(polyline) == polyline2pathd(polyline, TRUE)

\* The rounded branch of rect2pathd.
RectRounded(x, y, w, h, rx, ry) ==
  LET S(a) == FloatStr(a)
      L(a, b) == <<"L", " ">> \o S(a) \o <<" ">> \o S(b) \o <<" ">>
      A(a, b) ==
        <<"A", " ">> \o S(rx) \o <<" ">> \o S(ry) \o <<" ", "0", " ", "0", " ", "1", " ">>
        \o S(a) \o <<" ">> \o S(b) \o <<" ">>
  IN  <<"M", " ">> \o S(FAdd(x, rx)) \o <<" ">> \o S(y) \o <<" ">>
      \o L(FSub(FAdd(x, w), rx), y)
      \o A(FAdd(x, w), FAdd(y, ry))
      \o L(FAdd(x, w), FSub(FAdd(y, h), ry))
      \o A(FSub(FAdd(x, w), rx), FAdd(y, h))
      \o L(FAdd(x, rx), FAdd(y, h))
      \o A(x, FSub(FAdd(y, h), ry))
      \o L(x, FAdd(y, ry))
      \o A(FAdd(x, rx), y) \o <<"z">>

\* The plain branch of rect2pathd.
RectPlain(x, y, w, h) ==
  LET S(a) == FloatStr(a)
      L(a, b) == <<" ", "L", " ">> \o S(a) \o <<" ">> \o S(b)
  IN  <<"M">> \o S(x) \o <<" ">> \o S(y)
      \o L(FAdd(x, w), y) \o L(FAdd(x, w), FAdd(y, h)) \o L(x, FAdd(y, h))
      \o <<" ", "z">>

\* A faulty variant of OrZero, which forgets the other radius; C6 must not
\* hold of it.
OrZero_Always(v) == Num(0)

\* `v or 0.0`.
OrZero(v) == IF Truthy(v) THEN v ELSE Num(0)

\* The radii of a rounded rect: a missing one takes the other's value if
\* that is truthy, else 0.0.
RectRx(rect) ==
  IF "rx" \in DOMAIN rect THEN Get(rect, "rx", None)
  ELSE OrZero(Get(rect, "ry", None))

RectRy(rect) ==
  IF "ry" \in DOMAIN rect THEN Get(rect, "ry", None) ELSE OrZero(RectRx(rect))

\* rect2pathd from the floats on.
RectPath(rounded, fx, fy, fw, fh, frx, fry) ==
  IF FirstExc(<<fx, fy, fw, fh>>) # "none" THEN Raises(FirstExc(<<fx, fy, fw, fh>>))
  ELSE IF rounded
  THEN IF FirstExc(<<frx, fry>>) # "none" THEN Raises(FirstExc(<<frx, fry>>))
       ELSE Returns(RectRounded(Fixed(fx), Fixed(fy), Fixed(fw), Fixed(fh),
                                Fixed(frx), Fixed(fry)))
  ELSE Returns(RectPlain(Fixed(fx), Fixed(fy), Fixed(fw), Fixed(fh)))

rect2pathd(rect) ==
  RectPath("rx" \in DOMAIN rect \/ "ry" \in DOMAIN rect,
           Float(Get(rect, "x", Num(0))), Float(Get(rect, "y", Num(0))),
           Float(Get(rect, "width", Num(0))), Float(Get(rect, "height", Num(0))),
           Float(RectRx(rect)), Float(RectRy(rect)))

\* line2pathd: the raw attribute strings, "0" for a missing one.
line2pathd(l) ==
  Returns(<<"M">> \o Get(l, "x1", Str(<<"0">>)).s \o <<" ">>
          \o Get(l, "y1", Str(<<"0">>)).s \o <<"L">>
          \o Get(l, "x2", Str(<<"0">>)).s \o <<" ">>
          \o Get(l, "y2", Str(<<"0">>)).s)

\* ------------------------------------------------------------------ inputs

\* An attribute mapping with the given optional entries: each entry is
\* <<name, value>>, or <<>> for an attribute the element does not have.
NoAttributes == [k \in {} |-> <<>>]

RECURSIVE Mapping(_)
Mapping(entries) ==
  IF entries = <<>> THEN NoAttributes
  ELSE IF Head(entries) = <<>> THEN Mapping(Tail(entries))
  ELSE (Head(entries)[1] :> Head(entries)[2]) @@ Mapping(Tail(entries))

Entries(name, values) == {<<>>} \cup {<<name, v>> : v \in values}

\* Free-form points strings.
Alphabet == {"0", "1", ".", "-", ",", " ", "e", "+"}
RawStrings == UNION {[1..n -> Alphabet] : n \in 0..MaxRawLen}

\* Points strings written pair by pair, the pairs separated by a space.
PairTexts ==
  { <<"0", ",", "0">>,
    <<"1", "-", "2">>,
    <<"3", ",", "3">>,
    <<"1", ".", "0", " ", "2">>,
    <<"1", " ", "2", ".", "0">>,
    <<".", ",", "1">> }

RECURSIVE JoinTexts(_)
JoinTexts(ts) ==
  IF Len(ts) = 1 THEN ts[1] ELSE ts[1] \o <<" ">> \o JoinTexts(Tail(ts))

PairStrings ==
  {JoinTexts(ts) : ts \in UNION {[1..n -> PairTexts] : n \in 1..MaxPairs}}

PointsMappings ==
  {[points |-> s] : s \in RawStrings \cup PairStrings} \cup {[id |-> <<"p">>]}

RadiusValues == {<<"0">>, <<"1">>, <<"0", ".", "5">>, <<>>, <<"x">>}

RectMappings ==
  {Mapping(<<x, y, w, h, rx, ry>>) :
     x \in Entries("x", {<<"1">>, <<"-", "0", ".", "5">>}),
     y \in Entries("y", {<<"2">>}),
     w \in Entries("width", {<<"4">>, <<"w">>}),
     h \in Entries("height", {<<"3">>}),
     rx \in Entries("rx", RadiusValues),
     ry \in Entries("ry", RadiusValues)}

EllipseMappings ==
  {Mapping(<<cx, cy, r, rx, ry>>) :
     cx \in Entries("cx", {<<"1">>}),
     cy \in Entries("cy", {<<"2">>, <<"c">>}),
     r \in Entries("r", RadiusValues \ {<<>>}),
     rx \in Entries("rx", RadiusValues \ {<<>>}),
     ry \in Entries("ry", RadiusValues \ {<<>>})}

LineMappings ==
  {Mapping(<<x1, y1, x2, y2>>) :
     x1 \in Entries("x1", {<<"1">>}),
     y1 \in Entries("y1", {<<"2", ".", "5", "0">>}),
     x2 \in Entries("x2", {<<"-", "3">>}),
     y2 \in Entries("y2", {<<"4", "e", "0">>})}

\* --------------------------------------------- one call of a pure function

NoCall == [exc |-> "none", d |-> <<>>]

Idle ==
  /\ doc = <<>>
  /\ flags = [k \in {} |-> FALSE]
  /\ return_svg_attributes = FALSE
  /\ pc = "idle"
  /\ idx = 0
  /\ d_strings = <<>>
  /\ attribute_dictionary_list = <<>>
  /\ svg_attributes = NoAttributes
  /\ path_list = <<>>
  /\ result = NoCall

InitConv ==
  /\ fn = "none"
  /\ arg \in PointsMappings \cup RectMappings \cup EllipseMappings \cup LineMappings
  /\ out = NoCall
  /\ Idle

\* COORD_PAIR_TMPLT.findall(polyline.get("points", ""))
CallFindAll ==
  /\ fn = "none"
  /\ arg \in PointsMappings
  /\ fn' = "findall"
  /\ out' = Returns(FindAll(Get(arg, "points", Str(<<>>)).s))
  /\ UNCHANGED <<arg, walkVars>>

CallPolyline ==
  /\ fn = "none"
  /\ arg \in PointsMappings
  /\ fn' = "polyline2pathd"
  /\ out' = polyline2pathd(arg, FALSE)
  /\ UNCHANGED <<arg, walkVars>>

CallPolygon ==
  /\ fn = "none"
  /\ arg \in PointsMappings
  /\ fn' = "polygon2pathd"
  /\ out' = polygon2pathd(arg)
  /\ UNCHANGED <<arg, walkVars>>

CallRect ==
  /\ fn = "none"
  /\ arg \in RectMappings
  /\ fn' = "rect2pathd"
  /\ out' = rect2pathd(arg)
  /\ UNCHANGED <<arg, walkVars>>

CallEllipse ==
  /\ fn = "none"
  /\ arg \in EllipseMappings
  /\ fn' = "ellipse2pathd"
  /\ out' = ellipse2pathd(arg, FALSE)
  /\ UNCHANGED <<arg, walkVars>>

CallEllipseCubics ==
  /\ fn = "none"
  /\ arg \in EllipseMappings
  /\ fn' = "ellipse2pathd_cubics"
  /\ out' = ellipse2pathd(arg, TRUE)
  /\ UNCHANGED <<arg, walkVars>>

CallLine ==
  /\ fn = "none"
  /\ arg \in LineMappings
  /\ fn' = "line2pathd"
  /\ out' = line2pathd(arg)
  /\ UNCHANGED <<arg, walkVars>>

NextConv ==
  \/ CallFindAll
  \/ CallPolyline
  \/ CallPolygon
  \/ CallRect
  \/ CallEllipse
  \/ CallEllipseCubics
  \/ CallLine

SpecConv == InitConv /\ [][NextConv]_vars

\* ------------------------------------------------------------- svg2paths

Element(tagName, attributes) == [tagName |-> tagName, attributes |-> attributes]

\* The elements documents are made of: one or two of every kind the walker
\* converts, and an svg element, which it does not.
Elements ==
  { Element("svg", [width |-> <<"1", "0">>]),
    Element("path", [d |-> <<"M", "0", " ", "0", "L", "1", " ", "1">>]),
    Element("path", [id |-> <<"p">>]),
    Element("polyline", [points |-> <<"0", ",", "0", " ", "1", "-", "2", " ", "3", ",", "3">>]),
    Element("polygon", [points |-> <<"0", ",", "0", " ", "1", ",", "0", " ", "0", ".", "0", ",", "0">>]),
    Element("line", [x1 |-> <<"0">>, y1 |-> <<"0">>, x2 |-> <<"1">>, y2 |-> <<"2">>]),
    Element("line", [x2 |-> <<"1">>, y2 |-> <<"2">>]),
    Element("ellipse", [cx |-> <<"1">>, rx |-> <<"2">>, ry |-> <<"1">>]),
    Element("circle", [cx |-> <<"5">>, cy |-> <<"5">>, r |-> <<"3">>]),
    Element("circle", [r |-> <<"x">>]),
    Element("rect", [x |-> <<"0">>, y |-> <<"0">>, width |-> <<"1", "0">>,
                     height |-> <<"1", "0">>]) }

Documents == UNION {[1..n -> Elements] : n \in 0..MaxDoc}

FlagNames ==
  {"convert_circles_to_paths", "convert_ellipses_to_paths",
   "convert_lines_to_paths", "convert_polylines_to_paths",
   "convert_polygons_to_paths", "convert_rectangles_to_paths"}

\* The flags the loop can read on a document: those of the kinds of its
\* elements.  The other flags are never read, and are left at their default.
FlagsRead(document) ==
  {name \in FlagNames :
     \E k \in 1..Len(document) :
       \/ document[k].tagName = "circle" /\ name = "convert_circles_to_paths"
       \/ document[k].tagName = "ellipse" /\ name = "convert_ellipses_to_paths"
       \/ document[k].tagName = "line" /\ name = "convert_lines_to_paths"
       \/ document[k].tagName = "polyline" /\ name = "convert_polylines_to_paths"
       \/ document[k].tagName = "polygon" /\ name = "convert_polygons_to_paths"
       \/ document[k].tagName = "rect" /\ name = "convert_rectangles_to_paths"}

FlagSettings(document) ==
  {f \in [FlagNames -> BOOLEAN] : \A name \in FlagNames \ FlagsRead(document) : f[name]}

\* dom2dict
dom2dict(element) == element.attributes

\* parse_path of the parser module: the Path object parsed from d.
parse_path(d) == [parsed |-> d]

\* path_data["d"]
PathD(path_data) ==
  IF "d" \in DOMAIN path_data THEN Returns(path_data["d"]) ELSE Raises("KeyError")

\* f"M{line_data['x1']} {line_data['y1']} L{line_data['x2']} {line_data['y2']}"
LineD(line_data) ==
  IF {"x1", "y1", "x2", "y2"} \subseteq DOMAIN line_data
  THEN Returns(<<"M">> \o line_data["x1"] \o <<" ">> \o line_data["y1"]
               \o <<" ", "L">> \o line_data["x2"] \o <<" ">> \o line_data["y2"])
  ELSE Raises("KeyError")

NoResult == [exc |-> "none", paths |-> <<>>, attributes |-> <<>>, svg |-> NoAttributes]

Init ==
  /\ doc \in Documents
  /\ flags \in FlagSettings(doc)
  /\ return_svg_attributes \in BOOLEAN
  /\ pc = "walk"
  /\ idx = 1
  /\ d_strings = <<>>
  /\ attribute_dictionary_list = <<>>
  /\ svg_attributes = NoAttributes
  /\ path_list = <<>>
  /\ result = NoResult
  /\ fn = "none"
  /\ arg = NoAttributes
  /\ out = NoCall

\* A faulty variant of Raise, which hands out what was collected so far; C8
\* must not hold of it.
Raise_Partial(exc) ==
  /\ pc' = "raised"
  /\ result' = [exc |-> exc, paths |-> d_strings,
                attributes |-> attribute_dictionary_list, svg |-> NoAttributes]
  /\ UNCHANGED <<doc, flags, return_svg_attributes, idx, d_strings,
                 attribute_dictionary_list, svg_attributes, path_list, convVars>>

\* An exception leaves svg2paths: nothing is returned.
Raise(exc) ==
  /\ pc' = "raised"
  /\ result' = [NoResult EXCEPT !.exc = exc]
  /\ UNCHANGED <<doc, flags, return_svg_attributes, idx, d_strings,
                 attribute_dictionary_list, svg_attributes, path_list, convVars>>

\* A faulty variant of AppendBoth, which puts the attribute mapping at the
\* front; C1 must not hold of it.
AppendBoth_Misaligned(d, data) ==
  /\ d_strings' = Append(d_strings, d)
  /\ attribute_dictionary_list' = <<data>> \o attribute_dictionary_list
  /\ idx' = idx + 1
  /\ UNCHANGED <<doc, flags, return_svg_attributes, pc, svg_attributes,
                 path_list, result, convVars>>

\* A faulty variant of AppendBoth, which puts both entries at the front; C2
\* must not hold of it.
AppendBoth_Reversed(d, data) ==
  /\ d_strings' = <<d>> \o d_strings
  /\ attribute_dictionary_list' = <<data>> \o attribute_dictionary_list
  /\ idx' = idx + 1
  /\ UNCHANGED <<doc, flags, return_svg_attributes, pc, svg_attributes,
                 path_list, result, convVars>>

\* The two appends of a branch of the loop.
AppendBoth(d, data) ==
  /\ d_strings' = Append(d_strings, d)
  /\ attribute_dictionary_list' = Append(attribute_dictionary_list, data)
  /\ idx' = idx + 1
  /\ UNCHANGED <<doc, flags, return_svg_attributes, pc, svg_attributes,
                 path_list, result, convVars>>

\* One branch of the loop: the conversion is evaluated first, and the appends
\* run only if it returns.
Branch(converted, data) ==
  IF converted.exc = "none" THEN AppendBoth(converted.d, data)
  ELSE Raise(converted.exc)

\* A faulty variant of Enabled, which ignores convert_circles_to_paths; C3
\* must not hold of it.
Enabled_Circles(el) ==
  CASE el.tagName = "path" -> TRUE
    [] el.tagName = "polyline" -> flags["convert_polylines_to_paths"]
    [] el.tagName = "polygon" -> flags["convert_polygons_to_paths"]
    [] el.tagName = "line" -> flags["convert_lines_to_paths"]
    [] el.tagName = "ellipse" -> flags["convert_ellipses_to_paths"]
    [] el.tagName = "circle" -> TRUE
    [] el.tagName = "rect" -> flags["convert_rectangles_to_paths"]
    [] OTHER -> FALSE

\* The condition of the element's branch of the if/elif chain, after the tag:
\* the flag of its kind; path has none.
Enabled(el) ==
  CASE el.tagName = "path" -> TRUE
    [] el.tagName = "polyline" -> flags["convert_polylines_to_paths"]
    [] el.tagName = "polygon" -> flags["convert_polygons_to_paths"]
    [] el.tagName = "line" -> flags["convert_lines_to_paths"]
    [] el.tagName = "ellipse" -> flags["convert_ellipses_to_paths"]
    [] el.tagName = "circle" -> flags["convert_circles_to_paths"]
    [] el.tagName = "rect" -> flags["convert_rectangles_to_paths"]
    [] OTHER -> FALSE

\* The loop is at an element with the given tag whose branch is taken.
At(tagName) ==
  /\ pc = "walk"
  /\ idx <= Len(doc)
  /\ doc[idx].tagName = tagName
  /\ Enabled(doc[idx])

VisitPath ==
  /\ At("path")
  /\ Branch(PathD(dom2dict(doc[idx])), dom2dict(doc[idx]))

VisitPolyline ==
  /\ At("polyline")
  /\ Branch(polyline2pathd(dom2dict(doc[idx]), FALSE), dom2dict(doc[idx]))

VisitPolygon ==
  /\ At("polygon")
  /\ Branch(polygon2pathd(dom2dict(doc[idx])), dom2dict(doc[idx]))

VisitLine ==
  /\ At("line")
  /\ Branch(LineD(dom2dict(doc[idx])), dom2dict(doc[idx]))

VisitEllipse ==
  /\ At("ellipse")
  /\ Branch(ellipse2pathd(dom2dict(doc[idx]), FALSE), dom2dict(doc[idx]))

VisitCircle ==
  /\ At("circle")
  /\ Branch(ellipse2pathd(dom2dict(doc[idx]), FALSE), dom2dict(doc[idx]))

VisitRect ==
  /\ At("rect")
  /\ Branch(rect2pathd(dom2dict(doc[idx])), dom2dict(doc[idx]))

\* No branch of the if/elif chain is taken.
SkipElement ==
  /\ pc = "walk"
  /\ idx <= Len(doc)
  /\ ~Enabled(doc[idx])
  /\ idx' = idx + 1
  /\ UNCHANGED <<doc, flags, return_svg_attributes, pc, d_strings,
                 attribute_dictionary_list, svg_attributes, path_list, result,
                 convVars>>

\* doc.getElementsByTagName("svg")
SvgElements == SelectSeq(doc, LAMBDA el : el.tagName = "svg")

\* After the loop: the svg attributes if asked for, then doc.unlink().
LoopEnd ==
  /\ pc = "walk"
  /\ idx > Len(doc)
  /\ IF return_svg_attributes /\ SvgElements = <<>> THEN Raise("IndexError")
     ELSE /\ svg_attributes' = IF return_svg_attributes
                               THEN dom2dict(SvgElements[1]) ELSE svg_attributes
          /\ pc' = "parse"
          /\ UNCHANGED <<doc, flags, return_svg_attributes, idx, d_strings,
                         attribute_dictionary_list, path_list, result, convVars>>

\* path_list = [parse_path(d) for d in d_strings]; return ...
ParseAndReturn ==
  /\ pc = "parse"
  /\ path_list' = [i \in 1..Len(d_strings) |-> parse_path(d_strings[i])]
  /\ pc' = "returned"
  /\ result' = [exc |-> "none", paths |-> path_list',
                attributes |-> attribute_dictionary_list,
                svg |-> svg_attributes]
  /\ UNCHANGED <<doc, flags, return_svg_attributes, idx, d_strings,
                 attribute_dictionary_list, svg_attributes, convVars>>

\* parse_path raises on one of the strings.
ParseFails ==
  /\ pc = "parse"
  /\ \E k \in 1..Len(d_strings) : Raise("ParseError")

Next ==
  \/ VisitPath
  \/ VisitPolyline
  \/ VisitPolygon
  \/ VisitLine
  \/ VisitEllipse
  \/ VisitCircle
  \/ VisitRect
  \/ SkipElement
  \/ LoopEnd
  \/ ParseAndReturn
  \/ ParseFails

Spec == Init /\ [][Next]_vars

\* ================================================================== claims

\* ------------------------------------------------ vocabulary of the claims

ShapeTags == {"path", "line", "polyline", "polygon", "ellipse", "circle", "rect"}

\* The inclusion flag of a shape kind, as the claims name it; path has none.
FlagOf(tagName) ==
  CASE tagName = "line" -> "convert_lines_to_paths"
    [] tagName = "polyline" -> "convert_polylines_to_paths"
    [] tagName = "polygon" -> "convert_polygons_to_paths"
    [] tagName = "ellipse" -> "convert_ellipses_to_paths"
    [] tagName = "circle" -> "convert_circles_to_paths"
    [] tagName = "rect" -> "convert_rectangles_to_paths"

\* An element the claims count as included.
Included(el) ==
  /\ el.tagName \in ShapeTags
  /\ el.tagName = "path" \/ flags[FlagOf(el.tagName)]

\* The positions of the included elements among the first n of the document,
\* in document order.
RECURSIVE IncludedUpTo(_)
IncludedUpTo(n) ==
  IF n = 0 THEN <<>>
  ELSE IF Included(doc[n]) THEN Append(IncludedUpTo(n - 1), n)
  ELSE IncludedUpTo(n - 1)

\* The path string of an element, by its kind.
PathStringOf(el) ==
  CASE el.tagName = "path" -> PathD(el.attributes)
    [] el.tagName = "line" -> LineD(el.attributes)
    [] el.tagName = "polyline" -> polyline2pathd(el.attributes, FALSE)
    [] el.tagName = "polygon" -> polygon2pathd(el.attributes)
    [] el.tagName \in {"ellipse", "circle"} -> ellipse2pathd(el.attributes, FALSE)
    [] el.tagName = "rect" -> rect2pathd(el.attributes)
    [] OTHER -> Raises("not a shape")

\* The command letters of a path string, in order: its letters other than the
\* exponent marker of a number.
CommandsOf(d) == SelectSeq(d, LAMBDA c : c \in Letters \ {"e", "E"})

CountOf(d, c) == Len(SelectSeq(d, LAMBDA x : x = c))

\* The points string of the call, and the pairs the scanner finds in it.
PointsOf(mapping) == Get(mapping, "points", Str(<<>>)).s

\* First and last pair equal on both coordinates as parsed numbers.
Coincide(pairs) ==
  LET x0 == FloatOfStr(pairs[1][1])
      y0 == FloatOfStr(pairs[1][2])
      xn == FloatOfStr(pairs[Len(pairs)][1])
      yn == FloatOfStr(pairs[Len(pairs)][2])
  IN  /\ x0.exc = "none" /\ xn.exc = "none" /\ FloatEq(x0, xn)
      /\ y0.exc = "none" /\ yn.exc = "none" /\ FloatEq(y0, yn)

\* A token float() rejects.
Unparseable(token) == FloatOfStr(token).exc # "none"

\* --------------------------------------------------------------------- C1
\* C1: the two accumulators have equal length after every element the loop
\* visits; when svg2paths returns, the path sequence and the attribute
\* sequence have the same length, and for every index i the path at i is the
\* one parsed from the path string of the element whose attribute mapping is
\* at i.
C1_Aligned ==
  /\ Len(d_strings) = Len(attribute_dictionary_list)
  /\ pc = "returned" =>
       /\ Len(result.paths) = Len(result.attributes)
       /\ \A i \in 1..Len(result.paths) :
            \E k \in 1..Len(doc) :
              /\ result.attributes[i] = doc[k].attributes
              /\ PathStringOf(doc[k]).exc = "none"
              /\ result.paths[i] = parse_path(PathStringOf(doc[k]).d)

C1_Witness ==
  /\ pc = "returned"
  /\ Len(result.paths) = 2
  /\ result.attributes[1] # result.attributes[2]

\* --------------------------------------------------------------------- C2
\* C2: the entries of both sequences are in document order across all kinds:
\* the i-th entry comes from the i-th included element of the document, both
\* during the walk and in what svg2paths returns.
C2_DocumentOrder ==
  LET visited == IncludedUpTo(IF pc = "raised" THEN 0 ELSE idx - 1)
  IN  /\ pc \in {"walk", "parse", "returned"} =>
           /\ Len(attribute_dictionary_list) = Len(visited)
           /\ \A i \in 1..Len(visited) :
                /\ attribute_dictionary_list[i] = doc[visited[i]].attributes
                /\ d_strings[i] = PathStringOf(doc[visited[i]]).d
      /\ pc = "returned" =>
           /\ result.attributes = attribute_dictionary_list
           /\ result.paths = [i \in 1..Len(d_strings) |-> parse_path(d_strings[i])]

C2_Witness ==
  /\ pc = "returned"
  /\ Len(doc) = 2
  /\ doc[1].tagName = "circle"
  /\ doc[2].tagName = "path"
  /\ Len(result.paths) = 2

\* --------------------------------------------------------------------- C3
\* C3: when svg2paths returns, the entries are those of exactly the elements
\* whose tag is a shape tag and whose flag is enabled; no other element
\* contributes, and none makes the call fail: a failure during the walk is at
\* an included element.  A document of one circle with
\* convert_circles_to_paths false returns zero shapes.
C3_IncludedOnly ==
  /\ pc = "returned" =>
       /\ Len(result.paths) = Len(IncludedUpTo(Len(doc)))
       /\ \A k \in 1..Len(doc) :
            Included(doc[k]) <=>
              \E i \in 1..Len(result.attributes) :
                /\ result.attributes[i] = doc[k].attributes
                /\ result.paths[i] = parse_path(PathStringOf(doc[k]).d)
  /\ pc = "raised" /\ idx <= Len(doc) => Included(doc[idx])
  /\ ( /\ Len(doc) = 1
       /\ doc[1].tagName = "circle"
       /\ ~flags["convert_circles_to_paths"]
       /\ ~return_svg_attributes
       /\ pc \notin {"walk", "parse"} )
     => pc = "returned" /\ result.paths = <<>> /\ result.attributes = <<>>

C3_Witness ==
  /\ pc = "returned"
  /\ Len(doc) = 1
  /\ doc[1].tagName = "circle"
  /\ ~flags["convert_circles_to_paths"]
  /\ result.paths = <<>>

\* --------------------------------------------------------------------- C4
\* C4 as stated: a polygon of n >= 3 points converts to a string with exactly
\* n L commands that ends in z.
C4_Original ==
  (fn = "polygon2pathd" /\ Len(FindAll(PointsOf(arg))) >= 3 /\ out.exc = "none")
  => /\ CountOf(out.d, "L") = Len(FindAll(PointsOf(arg)))
     /\ out.d[Len(out.d)] = "z"

\* C4 as amended: for a polygon of n >= 3 points, polygon2pathd either raises
\* ValueError, and then a coordinate of the first or last point is a token
\* float() rejects, or returns a string that ends in z and has n L commands if
\* the first and last point coincide as numbers and n - 1 otherwise.
C4_Amended ==
  (fn = "polygon2pathd" /\ Len(FindAll(PointsOf(arg))) >= 3) =>
    LET pairs == FindAll(PointsOf(arg))
        n == Len(pairs)
    IN  \/ /\ out.exc = "ValueError"
           /\ \E i \in {1, n}, j \in {1, 2} : Unparseable(pairs[i][j])
        \/ /\ out.exc = "none"
           /\ out.d[Len(out.d)] = "z"
           /\ CountOf(out.d, "L") = IF Coincide(pairs) THEN n ELSE n - 1

C4_Witness ==
  /\ fn = "polygon2pathd"
  /\ Len(FindAll(PointsOf(arg))) = 3
  /\ out.exc = "none"
  /\ ~Coincide(FindAll(PointsOf(arg)))
  /\ CountOf(out.d, "L") = 2

\* --------------------------------------------------------------------- C5
\* C5 as stated, for a line element converted by svg2paths: a line element,
\* whatever coordinate attributes it lacks, is converted and is not an error.
C5_LineElementConverted ==
  ~( /\ pc = "raised"
     /\ idx <= Len(doc)
     /\ doc[idx].tagName = "line" )

\* --------------------------------------------------------------------- C6
\* C6: rect2pathd gives the same result for a rect with only rx = v, with only
\* ry = v, and with both rx = v and ry = v.
WithRadii(rect, keys, v) ==
  [k \in (DOMAIN rect \ {"rx", "ry"}) \cup keys |->
     IF k \in {"rx", "ry"} THEN v ELSE rect[k]]

C6_SingleRadius ==
  fn = "rect2pathd" =>
    \A v \in RadiusValues :
      arg \in {WithRadii(arg, {"rx"}, v), WithRadii(arg, {"ry"}, v),
               WithRadii(arg, {"rx", "ry"}, v)}
      => /\ out = rect2pathd(WithRadii(arg, {"rx"}, v))
         /\ out = rect2pathd(WithRadii(arg, {"ry"}, v))
         /\ out = rect2pathd(WithRadii(arg, {"rx", "ry"}, v))

C6_Witness ==
  /\ fn = "rect2pathd"
  /\ DOMAIN arg = {"x", "y", "width", "height", "rx"}
  /\ arg["rx"] = <<"0", ".", "5">>
  /\ out.exc = "none"

\* --------------------------------------------------------------------- C7
Converters ==
  {"ellipse2pathd", "ellipse2pathd_cubics", "polyline2pathd", "polygon2pathd",
   "rect2pathd", "line2pathd"}

\* C7 as stated: a converter's path string uses only the command letters
\* M, L, C, A, z.
C7_Original ==
  (fn \in Converters /\ out.exc = "none")
  => \A i \in 1..Len(out.d) :
       out.d[i] \in Letters \ {"e", "E"} => out.d[i] \in {"M", "L", "C", "A", "z"}

\* The radii and the centre an ellipse or circle mapping gives.
RadiusX(m) == Fixed(Float(Get(m, IF "r" \in DOMAIN m THEN "r" ELSE "rx", None)))
RadiusY(m) == Fixed(Float(Get(m, IF "r" \in DOMAIN m THEN "r" ELSE "ry", None)))
CentreX(m) == Fixed(Float(Get(m, "cx", Num(0))))
CentreY(m) == Fixed(Float(Get(m, "cy", Num(0))))

\* "a rx,ry 0 1,0 dx,0": radii (rx, ry), rotation 0, large-arc-flag 1,
\* sweep-flag 0, to the point dx to the right.
RelativeArc(rx, ry, dx) ==
  <<"a">> \o FloatStr(rx) \o <<",">> \o FloatStr(ry)
  \o <<" ", "0", " ", "1", ",", "0", " ">> \o FloatStr(dx) \o <<",", "0">>

\* C7 as amended: a converter's path string uses only the command letters
\* M, L, C, A, z and, in ellipse/circle arc mode, the relative arc letter a:
\* arc mode emits a move to (cx - rx, cy), two relative elliptical-arc
\* commands a with radii (rx, ry), rotation 0, large-arc-flag 1, sweep-flag 0
\* and end offsets (2rx, 0) and (-2rx, 0), and a closing z.
C7_Amended ==
  /\ (fn \in Converters /\ out.exc = "none")
     => \A i \in 1..Len(out.d) :
          out.d[i] \in Letters \ {"e", "E"} =>
            /\ out.d[i] \in {"M", "L", "C", "A", "a", "z"}
            /\ out.d[i] = "a" => fn = "ellipse2pathd"
  /\ (fn = "ellipse2pathd" /\ out.exc = "none")
     => out.d =
          <<"M">> \o FloatStr(FSub(CentreX(arg), RadiusX(arg))) \o <<",">>
          \o FloatStr(CentreY(arg))
          \o RelativeArc(RadiusX(arg), RadiusY(arg), FMulInt(2, RadiusX(arg)))
          \o RelativeArc(RadiusX(arg), RadiusY(arg), FMulInt(0 - 2, RadiusX(arg)))
          \o <<"z">>

C7_Witness ==
  /\ fn = "ellipse2pathd"
  /\ out.exc = "none"
  /\ CommandsOf(out.d) = <<"M", "a", "a", "z">>
  /\ "rx" \in DOMAIN arg
  /\ "r" \notin DOMAIN arg

\* --------------------------------------------------------------------- C8
\* C8: a call of svg2paths that ends in an error returns nothing, neither
\* paths nor attributes, however many elements were converted before the
\* failure, and does not go on; a call that returns has converted every
\* included element (none that fails is skipped) and parsed every string.
C8_AllOrNothing ==
  /\ pc = "raised" =>
       /\ result.exc # "none"
       /\ result.paths = <<>>
       /\ result.attributes = <<>>
       /\ ~ENABLED Next
  /\ pc = "returned" =>
       /\ result.exc = "none"
       /\ Len(result.paths) = Len(result.attributes)
       /\ Len(result.paths) = Len(d_strings)
       /\ \A k \in 1..Len(doc) :
            Included(doc[k]) => PathStringOf(doc[k]).exc = "none"

C8_Witness ==
  /\ pc = "raised"
  /\ result.exc = "ValueError"
  /\ Len(d_strings) = 1
  /\ result.paths = <<>>

\* --------------------------------------------------------------------- C9
ExamplePoints == <<"0", ",", "0", " ", "1", "-", "2", " ", "3", ",", "3">>
ExamplePairs == << <<<<"0">>, <<"0">>>>, <<<<"1">>, <<"-", "2">>>>, <<<<"3">>, <<"3">>>> >>

\* The text between the two numbers of a pair is a separator: a comma with
\* optional whitespace around it, whitespace, or nothing before a minus sign.
IsSeparator(s, m) ==
  LET sep == Slice(s, m.e1, m.s2)
  IN  \/ sep = <<>> /\ s[m.s2] = "-"
      \/ sep # <<>> /\ \A i \in 1..Len(sep) : sep[i] \in Spaces
      \/ /\ CountOf(sep, ",") = 1
         /\ \A i \in 1..Len(sep) : sep[i] \in Spaces \cup {","}

C10_Polyline ==
  (fn = "polyline2pathd" /\ FindAll(PointsOf(arg)) # <<>>) =>
    LET pairs == FindAll(PointsOf(arg))
    IN  out = Returns(<<"M">> \o JoinPairs(pairs)
                      \o (IF Coincide(pairs) THEN <<"z">> ELSE <<>>))

====
